---- MODULE Spec2Model ----
(***************************************************************************)
(* A model of streamlit_app.py: the upload of monthly claim workbooks, the *)
(* per-file loading and validation, the grouping of the kept claims into   *)
(* quarters and the per-quarter aggregation with its capping rules and its *)
(* progressive results.                                                    *)
(*                                                                         *)
(* A data frame is a sequence of rows; a row is a function from header     *)
(* names to values; a cell the frame holds no value for (pandas NaN) is a  *)
(* header outside the row's domain.  Dates are numbers yyyymmdd, 0 is NaT. *)
(* Amounts are whole multiples of 1000, so that the true division by 2 of  *)
(* the progressive results is exact.                                       *)
(***************************************************************************)
EXTENDS Integers, Sequences, FiniteSets, TLC

\* The number of files one run uploads at most.
MaxFiles == 2

VARIABLES
    files,                \* uploaded_files, in upload order
    pc,                   \* where the run is
    idx,                  \* the number of files the first loop has read
    all_claims,           \* the concatenated validated claims
    detected_months,      \* (file index, month, year, count) per accepted file
    grouped_files,        \* the ordered dict quarter_key -> rows
    qi,                   \* the number of quarters the second loop has processed
    cumulative_data,      \* (code, name) -> cumulative FINAL
    progressive_results,  \* the ordered dict quarter_key -> result
    previous_sum,
    quarter_data          \* the ordered dict quarter_key -> summary table

vars == <<files, pc, idx, all_claims, detected_months, grouped_files, qi,
          cumulative_data, progressive_results, previous_sum, quarter_data>>

----------------------------------------------------------------------------
\* Helper functions of the source

month_mapping ==
    [m \in {"enero", "febrero", "marzo", "abril", "mayo", "junio", "julio",
            "agosto", "septiembre", "octubre", "noviembre", "diciembre"} |->
        CASE m = "enero" -> 1 [] m = "febrero" -> 2 [] m = "marzo" -> 3
          [] m = "abril" -> 4 [] m = "mayo" -> 5 [] m = "junio" -> 6
          [] m = "julio" -> 7 [] m = "agosto" -> 8 [] m = "septiembre" -> 9
          [] m = "octubre" -> 10 [] m = "noviembre" -> 11 [] m = "diciembre" -> 12]

\* The accepted spellings of each standard column, in the order they are tried.
variations ==
    << <<"COD_ASEGURADO", <<"COD_ASEGURADO">> >>,
       <<"NOMBRE_ASEGURADO", <<"NOMBRES ASEGURADO", "NOMBRE ASEGURADO", "NOMBRESASEURADO">> >>,
       <<"FECHA_RECLAMO", <<"FECHA_RECLAMO">> >>,
       <<"MONTO", <<"MONTO">> >>,
       <<"DIAGNOSTICO", <<"DIAGNOSTICOS", "DIAGNOSTICO">> >> >>

\* The first option of a list that is among the columns (the inner loop's break).
FirstOption(options, columns) ==
    LET hits == {i \in 1..Len(options) : options[i] \in columns}
    IN  options[CHOOSE i \in hits : \A j \in hits : i <= j]

\* detect_columns(df): standard name -> the header found for it.
detect_columns(columns) ==
    LET found == {v \in 1..Len(variations) :
                     \E i \in 1..Len(variations[v][2]) : variations[v][2][i] \in columns}
    IN  [s \in {variations[v][1] : v \in found} |->
            FirstOption(variations[CHOOSE v \in found : variations[v][1] = s][2], columns)]

Max(a, b) == IF a >= b THEN a ELSE b
Min(a, b) == IF a <= b THEN a ELSE b

\* A clamp that forgets the lower limit.
cap_value_upper_only(value, cap_limit) == Min(value, cap_limit)

cap_value(value, cap_limit) == Max(Min(value, cap_limit), -cap_limit)

\* The year of a date yyyymmdd.
YearOfDate(d) == d \div 10000

\* year1_range and year2_range as the UI sets them.
year1_range == <<20231001, 20240930>>
year2_range == <<20241001, 20250930>>

\* df.columns.str.upper() on the headers the model knows.
Upper(h) ==
    CASE h = "Diagnostico" -> "DIAGNOSTICO"
      [] OTHER -> h

UpperRow(r) ==
    [h2 \in {Upper(h) : h \in DOMAIN r} |-> r[CHOOSE h \in DOMAIN r : Upper(h) = h2]]

\* The columns of a frame given as rows (an empty frame has none).
Columns(rows) == UNION {DOMAIN rows[i] : i \in 1..Len(rows)}

RequiredColumns == {"COD_ASEGURADO", "NOMBRE_ASEGURADO", "FECHA_RECLAMO", "MONTO"}

\* The valid claims of one sheet: none when a required column is not detected,
\* else the rows dated within year_range (NaT compares false), headers in
\* upper case.
ValidClaims(sheet, year_range) ==
    LET detected_columns == detect_columns(sheet.cols)
        InRange(r) == /\ r["FECHA_RECLAMO"] # 0
                      /\ r["FECHA_RECLAMO"] >= year_range[1]
                      /\ r["FECHA_RECLAMO"] <= year_range[2]
    IN  IF RequiredColumns \subseteq DOMAIN detected_columns
        THEN SelectSeq([i \in 1..Len(sheet.rows) |-> UpperRow(sheet.rows[i])], InRange)
        ELSE <<>>

RECURSIVE LoadSheets(_, _, _, _)
LoadSheets(sheets, s, year_range, validated_claims) ==
    IF s > Len(sheets) THEN validated_claims
    ELSE LET valid_claims == ValidClaims(sheets[s], year_range)
         IN  LoadSheets(sheets, s + 1, year_range,
                        IF Len(valid_claims) > Len(validated_claims)
                        THEN valid_claims ELSE validated_claims)

\* load_and_validate_claims(file, year_range): the valid claims of the sheet
\* with the most of them, the first such sheet on a tie.
load_and_validate_claims(file, year_range) ==
    LoadSheets(file.sheets, 1, year_range, <<>>)

\* extract_year_from_dates(df, date_column) on a non-empty frame of valid dates.
extract_year_from_dates(rows, date_column) == YearOfDate(rows[1][date_column])

\* str.contains("COVID", case=False, na=False) after astype(str), on the
\* diagnosis texts the model knows; a missing cell reads "nan".
ContainsCovid(text) == text \in {"COVID-19", "Neumonia covid"}

RECURSIVE SumSeq(_)
SumSeq(s) == IF s = <<>> THEN 0 ELSE Head(s) + SumSeq(Tail(s))

\* A quarter number that starts the year in October.
QuarterOf_fiscal(month) == ((month + 2) % 12) \div 3 + 1

\* quarter = (month - 1) // 3 + 1
QuarterOf(month) == (month - 1) \div 3 + 1

\* quarter_key = f"Q{quarter}-{year}", kept as the pair it is built from
quarter_key(row) == <<QuarterOf(month_mapping[row["MONTH"]]), row["YEAR"]>>

\* year = int(quarter.split("-")[1])
KeyYear(key) == key[2]

\* The position of a key in an ordered dict, 0 when absent.
KeyIndex(dict, key) ==
    IF \E i \in 1..Len(dict) : dict[i].quarter = key
    THEN CHOOSE i \in 1..Len(dict) : dict[i].quarter = key
    ELSE 0

\* The loop over all_claims.iterrows() that fills grouped_files.
RECURSIVE GroupRows(_, _, _)
GroupRows(rows, r, grouped) ==
    IF r > Len(rows) THEN grouped
    ELSE LET key == quarter_key(rows[r])
             at  == KeyIndex(grouped, key)
         IN  GroupRows(rows, r + 1,
                 IF at = 0
                 THEN Append(grouped, [quarter |-> key, rows |-> <<rows[r]>>])
                 ELSE [grouped EXCEPT ![at].rows = Append(@, rows[r])])

\* The rows of a quarter's frame that carry a value in every one of `headers`.
RowsWith(data, headers) == SelectSeq(data, LAMBDA r : headers \subseteq DOMAIN r)

\* A Year-1 row whose COVID amount is clamped to 2000 first.
Year1Row_covid_capped(key, covid, general) ==
    [COD_ASEGURADO |-> key[1], NOMBRE_ASEGURADO |-> key[2],
     COVID_AMOUNT |-> cap_value(covid, 2000), GENERAL_AMOUNT |-> general,
     TOTAL_AMOUNT |-> cap_value(covid, 2000) + general,
     FINAL |-> cap_value(cap_value(covid, 2000) + general, 20000)]

\* Year 1: TOTAL_AMOUNT = COVID_AMOUNT + GENERAL_AMOUNT, FINAL = cap_value(., 20000)
Year1Row(key, covid, general) ==
    [COD_ASEGURADO |-> key[1], NOMBRE_ASEGURADO |-> key[2],
     COVID_AMOUNT |-> covid, GENERAL_AMOUNT |-> general,
     TOTAL_AMOUNT |-> covid + general,
     FINAL |-> cap_value(covid + general, 20000)]

\* A Year-2 row that pays nothing until the total exceeds 40000.
Year2Row_trigger(key, total) ==
    [COD_ASEGURADO |-> key[1], NOMBRE_ASEGURADO |-> key[2],
     COVID_AMOUNT |-> 0, GENERAL_AMOUNT |-> total,
     TOTAL_AMOUNT |-> total,
     FINAL |-> IF total > 40000 \/ total < -40000 THEN total ELSE 0]

\* Year 2: no COVID separation, TOTAL_AMOUNT = cap_value(., 40000), FINAL = TOTAL_AMOUNT
Year2Row(key, total) ==
    [COD_ASEGURADO |-> key[1], NOMBRE_ASEGURADO |-> key[2],
     COVID_AMOUNT |-> 0, GENERAL_AMOUNT |-> total,
     TOTAL_AMOUNT |-> cap_value(total, 40000),
     FINAL |-> cap_value(total, 40000)]

\* np.where(diagnosis contains "COVID", MONTO, 0), or 0 with no diagnosis column
CovidAmount(r, detected_columns) ==
    IF "DIAGNOSTICO" \in DOMAIN detected_columns
    THEN IF /\ detected_columns["DIAGNOSTICO"] \in DOMAIN r
            /\ ContainsCovid(r[detected_columns["DIAGNOSTICO"]])
         THEN r[detected_columns["MONTO"]] ELSE 0
    ELSE 0

\* The summary table `grouped` of one quarter: (code, name) -> row.  `data` are
\* the quarter's rows and `columns` the columns of their frame.  groupby drops
\* the rows with a missing key; the Year-1 sums are by COD_ASEGURADO alone.
Grouped(key, data, columns) ==
    LET detected_columns == detect_columns(columns)
        cod   == detected_columns["COD_ASEGURADO"]
        nom   == detected_columns["NOMBRE_ASEGURADO"]
        monto == detected_columns["MONTO"]
        keyed == RowsWith(data, {cod, nom})
        keys  == {<<keyed[i][cod], keyed[i][nom]>> : i \in 1..Len(keyed)}
        Total(k) ==
            LET group == SelectSeq(keyed, LAMBDA r : r[cod] = k[1] /\ r[nom] = k[2])
            IN  SumSeq([i \in 1..Len(group) |-> group[i][monto]])
        OfCode(k) ==
            SelectSeq(RowsWith(data, {"COD_ASEGURADO"}),
                      LAMBDA r : r["COD_ASEGURADO"] = k[1])
        CovidSum(k) ==
            SumSeq([i \in 1..Len(OfCode(k)) |->
                       CovidAmount(OfCode(k)[i], detected_columns)])
        GeneralSum(k) ==
            SumSeq([i \in 1..Len(OfCode(k)) |->
                       OfCode(k)[i][monto] - CovidAmount(OfCode(k)[i], detected_columns)])
    IN  IF KeyYear(key) = YearOfDate(year1_range[1])
        THEN [k \in keys |-> Year1Row(k, CovidSum(k), GeneralSum(k))]
        ELSE [k \in keys |-> Year2Row(k, Total(k))]

RECURSIVE SumFinalOver(_, _)
SumFinalOver(table, keys) ==
    IF keys = {} THEN 0
    ELSE LET k == CHOOSE x \in keys : TRUE
         IN  table[k].FINAL + SumFinalOver(table, keys \ {k})

\* grouped["FINAL"].sum()
SumFinal(table) == SumFinalOver(table, DOMAIN table)

\* The cumulative frame after one more quarter: the first non-empty table as it
\* is, then the outer merge with FINAL = FINAL_prev + FINAL_new.
MergeCumulative(cumulative, grouped) ==
    IF DOMAIN cumulative = {}
    THEN [k \in DOMAIN grouped |-> grouped[k].FINAL]
    ELSE [k \in DOMAIN cumulative \cup DOMAIN grouped |->
            (IF k \in DOMAIN cumulative THEN cumulative[k] ELSE 0)
          + (IF k \in DOMAIN grouped THEN grouped[k].FINAL ELSE 0)]

\* A step that overwrites previous_sum with the result.
NextPreviousSum_overwrite(previous, result) == result

\* previous_sum += result
NextPreviousSum(previous, result) == previous + result

----------------------------------------------------------------------------
\* The uploaded workbooks the model draws from.  A file is the month token and
\* the year its name yields ("" and 0 when it yields none) and its sheets; a
\* sheet is its headers and its rows.

Row(nom, diag, cod, nombre, fecha, monto, text) ==
    ("COD_ASEGURADO" :> cod) @@ (nom :> nombre) @@ ("FECHA_RECLAMO" :> fecha)
        @@ ("MONTO" :> monto) @@ (diag :> text)

RowNoDiag(nom, cod, nombre, fecha, monto) ==
    ("COD_ASEGURADO" :> cod) @@ (nom :> nombre) @@ ("FECHA_RECLAMO" :> fecha)
        @@ ("MONTO" :> monto)

RowNoMonto(nom, cod, nombre, fecha) ==
    ("COD_ASEGURADO" :> cod) @@ (nom :> nombre) @@ ("FECHA_RECLAMO" :> fecha)

Sheet(rows) == [cols |-> Columns(rows), rows |-> rows]

File(month, year, sheets) == [month |-> month, year |-> year, sheets |-> sheets]

\* The 15th of a month.
MidMonth(year, month) == year * 10000 + month * 100 + 15

\* One claim of 10000 for insured A, dated in the month the name carries.
MonthlyNames ==
    {<<"octubre", 2023>>, <<"noviembre", 2023>>, <<"diciembre", 2023>>,
     <<"enero", 2024>>, <<"octubre", 2024>>,
     <<"enero", 2025>>, <<"febrero", 2025>>, <<"marzo", 2025>>,
     <<"abril", 2025>>, <<"mayo", 2025>>, <<"junio", 2025>>,
     <<"julio", 2025>>, <<"agosto", 2025>>, <<"septiembre", 2025>>}

MonthlyFiles ==
    {File(n[1], n[2],
          <<Sheet(<<Row("NOMBRE ASEGURADO", "DIAGNOSTICO", "A", "Ana",
                        MidMonth(n[2], month_mapping[n[1]]), 10000, "GRIPE")>>)>>)
        : n \in MonthlyNames}

\* The sheets of the richer workbooks, their claims dated `d`.
Bodies(d) ==
    { \* a COVID claim and a general claim of one insured
      <<Sheet(<<Row("NOMBRE ASEGURADO", "DIAGNOSTICO", "A", "Ana", d, 15000, "COVID-19"),
                Row("NOMBRE ASEGURADO", "DIAGNOSTICO", "A", "Ana", d, 10000, "GRIPE")>>)>>,
      \* one large claim
      <<Sheet(<<Row("NOMBRE ASEGURADO", "DIAGNOSTICO", "A", "Ana", d, 35000, "GRIPE")>>)>>,
      \* another insured, above every cap
      <<Sheet(<<Row("NOMBRE ASEGURADO", "DIAGNOSTICO", "B", "Beto", d, 45000, "Neumonia covid")>>)>>,
      \* a negative amount below every cap
      <<Sheet(<<Row("NOMBRE ASEGURADO", "DIAGNOSTICO", "A", "Ana", d, -45000, "GRIPE")>>)>>,
      \* the plural diagnosis header
      <<Sheet(<<Row("NOMBRE ASEGURADO", "DIAGNOSTICOS", "A", "Ana", d, 4000, "COVID-19")>>)>>,
      \* no diagnosis column, the plural name header
      <<Sheet(<<RowNoDiag("NOMBRES ASEGURADO", "B", "Beto", d, 6000)>>)>>,
      \* no amount column in any sheet
      <<Sheet(<<RowNoMonto("NOMBRE ASEGURADO", "A", "Ana", d)>>)>>,
      \* two sheets: one valid claim beside an unparseable date, then two valid claims
      <<Sheet(<<Row("NOMBRE ASEGURADO", "DIAGNOSTICO", "A", "Ana", d, 2000, "GRIPE"),
                Row("NOMBRE ASEGURADO", "DIAGNOSTICO", "A", "Ana", 0, 8000, "GRIPE")>>),
        Sheet(<<Row("NOMBRE ASEGURADO", "DIAGNOSTICO", "B", "Beto", d, 4000, "GRIPE"),
                Row("NOMBRE ASEGURADO", "DIAGNOSTICO", "B", "Beto", d, 6000, "COVID-19")>>)>> }

\* A workbook whose diagnosis header is in mixed case.
MixedCaseBody(d) ==
    <<Sheet(<<Row("NOMBRE ASEGURADO", "Diagnostico", "B", "Beto", d, 2000, "COVID-19")>>)>>

RichFiles ==
    {File("octubre", 2023, b) : b \in Bodies(MidMonth(2023, 10))}
        \cup {File("octubre", 2024, b) : b \in Bodies(MidMonth(2024, 10))}
        \cup {File("noviembre", 2024, MixedCaseBody(MidMonth(2024, 11)))}

\* Names that yield no month or no year.
UnnamedFiles ==
    {File("", 2023, <<Sheet(<<Row("NOMBRE ASEGURADO", "DIAGNOSTICO", "A", "Ana",
                                  MidMonth(2023, 10), 10000, "GRIPE")>>)>>),
     File("octubre", 0, <<Sheet(<<Row("NOMBRE ASEGURADO", "DIAGNOSTICO", "A", "Ana",
                                      MidMonth(2024, 10), 10000, "GRIPE")>>)>>),
     File("octubre", 0, <<Sheet(<<RowNoMonto("NOMBRE ASEGURADO", "A", "Ana",
                                             MidMonth(2024, 10))>>)>>)}

Files == MonthlyFiles \cup RichFiles \cup UnnamedFiles

\* extract_month_year(filename): the month token and the year of the name.
extract_month_year(file) == <<file.month, file.year>>

----------------------------------------------------------------------------
\* The run

EmptyTable == [k \in {} |-> 0]

Init ==
    /\ files = <<>>
    /\ pc = "upload"
    /\ idx = 0
    /\ all_claims = <<>>
    /\ detected_months = <<>>
    /\ grouped_files = <<>>
    /\ qi = 0
    /\ cumulative_data = EmptyTable
    /\ progressive_results = <<>>
    /\ previous_sum = 0
    /\ quarter_data = <<>>

\* The user adds a workbook to the uploader.
Upload(f) ==
    /\ pc = "upload"
    /\ Len(files) < MaxFiles
    /\ files' = Append(files, f)
    /\ UNCHANGED <<pc, idx, all_claims, detected_months, grouped_files, qi,
                   cumulative_data, progressive_results, previous_sum, quarter_data>>

\* "Process Files" with at least one uploaded file.
Process ==
    /\ pc = "upload"
    /\ files # <<>>
    /\ pc' = "read"
    /\ UNCHANGED <<files, idx, all_claims, detected_months, grouped_files, qi,
                   cumulative_data, progressive_results, previous_sum, quarter_data>>

\* "Process Files" with no uploaded file: an error message, no run.
ProcessNothing ==
    /\ pc = "upload"
    /\ files = <<>>
    /\ pc' = "rejected"
    /\ UNCHANGED <<files, idx, all_claims, detected_months, grouped_files, qi,
                   cumulative_data, progressive_results, previous_sum, quarter_data>>

\* One round of the loop over the files.  The fallback year detection raises
\* KeyError on a frame without FECHA_RECLAMO, which ends the run.
ReadFile ==
    /\ pc = "read"
    /\ idx < Len(files)
    /\ LET file   == files[idx + 1]
           month  == extract_month_year(file)[1]
           year0  == extract_month_year(file)[2]
           claims == load_and_validate_claims(file,
                        IF year0 = YearOfDate(year1_range[1])
                        THEN year1_range ELSE year2_range)
           detected_columns == detect_columns(Columns(claims))
       IN  IF year0 = 0 /\ "FECHA_RECLAMO" \notin DOMAIN detected_columns
           THEN /\ pc' = "crashed"
                /\ UNCHANGED <<idx, all_claims, detected_months>>
           ELSE LET year == IF year0 = 0
                            THEN extract_year_from_dates(claims,
                                     detected_columns["FECHA_RECLAMO"])
                            ELSE year0
                IN  /\ pc' = "read"
                    /\ idx' = idx + 1
                    /\ IF month # "" /\ year # 0
                       THEN /\ detected_months' = Append(detected_months,
                                   [file |-> idx + 1, month |-> month, year |-> year,
                                    count |-> Len(claims)])
                            /\ all_claims' = all_claims \o
                                   [i \in 1..Len(claims) |->
                                       claims[i] @@ ("MONTH" :> month) @@ ("YEAR" :> year)]
                       ELSE UNCHANGED <<all_claims, detected_months>>
    /\ UNCHANGED <<files, grouped_files, qi, cumulative_data, progressive_results,
                   previous_sum, quarter_data>>

\* The loop over the rows of all_claims, once every file is read.
GroupFiles ==
    /\ pc = "read"
    /\ idx = Len(files)
    /\ grouped_files' = GroupRows(all_claims, 1, <<>>)
    /\ pc' = "quarters"
    /\ UNCHANGED <<files, idx, all_claims, detected_months, qi, cumulative_data,
                   progressive_results, previous_sum, quarter_data>>

\* One round of the loop over grouped_files.items().
ProcessQuarter ==
    /\ pc = "quarters"
    /\ qi < Len(grouped_files)
    /\ LET quarter   == grouped_files[qi + 1].quarter
           data      == grouped_files[qi + 1].rows
           grouped   == Grouped(quarter, data, Columns(all_claims))
           total_sum == SumFinal(grouped) \div 2
           result    == total_sum - previous_sum
       IN  /\ cumulative_data' = MergeCumulative(cumulative_data, grouped)
           /\ progressive_results' = Append(progressive_results,
                                            [quarter |-> quarter, result |-> result])
           /\ previous_sum' = NextPreviousSum(previous_sum, result)
           /\ quarter_data' = Append(quarter_data,
                                     [quarter |-> quarter, table |-> grouped])
    /\ qi' = qi + 1
    /\ UNCHANGED <<files, pc, idx, all_claims, detected_months, grouped_files>>

\* process_quarters returns; the report is written from quarter_data and
\* progressive_results.
Finish ==
    /\ pc = "quarters"
    /\ qi = Len(grouped_files)
    /\ pc' = "done"
    /\ UNCHANGED <<files, idx, all_claims, detected_months, grouped_files, qi,
                   cumulative_data, progressive_results, previous_sum, quarter_data>>

Next ==
    \/ \E f \in Files : Upload(f)
    \/ Process
    \/ ProcessNothing
    \/ ReadFile
    \/ GroupFiles
    \/ ProcessQuarter
    \/ Finish

Spec == Init /\ [][Next]_vars

----------------------------------------------------------------------------
\* Vocabulary of the properties

Abs(x) == IF x < 0 THEN -x ELSE x

InRange(d, year_range) == d # 0 /\ d >= year_range[1] /\ d <= year_range[2]

\* The summary table and the claims of the k-th processed quarter.
TableAt(k) == quarter_data[k].table
ClaimsAt(k) == grouped_files[k].rows

\* The k-th processed period is a Year-1 period: its label carries the first
\* year of the Year-1 window, or a claim of it is dated within that window.
Year1Period(k) ==
    \/ KeyYear(quarter_data[k].quarter) = YearOfDate(year1_range[1])
    \/ \E i \in 1..Len(ClaimsAt(k)) : InRange(ClaimsAt(k)[i]["FECHA_RECLAMO"], year1_range)

\* The k-th processed period is a Year-2 period: it is no Year-1 period and
\* its claims are dated within the Year-2 window.
Year2Period(k) ==
    /\ ~Year1Period(k)
    /\ \A i \in 1..Len(ClaimsAt(k)) : InRange(ClaimsAt(k)[i]["FECHA_RECLAMO"], year2_range)

\* The total amount of the claims of insured `cod` in the k-th period.
PeriodAmount(k, cod) ==
    SumSeq([i \in 1..Len(ClaimsAt(k)) |->
               IF ClaimsAt(k)[i]["COD_ASEGURADO"] = cod
               THEN ClaimsAt(k)[i]["MONTO"] ELSE 0])

\* The insured has a claim in the k-th period.
HasClaims(k, cod) ==
    \E i \in 1..Len(ClaimsAt(k)) : ClaimsAt(k)[i]["COD_ASEGURADO"] = cod

\* The claim's diagnosis, under either accepted header, contains "COVID".
IsCovidClaim(r) ==
    \E h \in {"DIAGNOSTICOS", "DIAGNOSTICO"} \cap DOMAIN r : ContainsCovid(r[h])

\* C1: in every summary of a Year-1 period every insured's FINAL lies within
\* [-20000, 20000], whatever the files and the amounts.
C1_Year1FinalWithinCap ==
    \A k \in 1..Len(quarter_data) :
        Year1Period(k) =>
            \A key \in DOMAIN TableAt(k) : Abs(TableAt(k)[key].FINAL) <= 20000

\* A Year-1 summary where one insured's total lies above 20000 and another's
\* below -20000, and both FINAL are at the cap.
C1_Witness ==
    \E k \in 1..Len(quarter_data) :
        /\ Year1Period(k)
        /\ \E a, b \in DOMAIN TableAt(k) :
              /\ TableAt(k)[a].TOTAL_AMOUNT > 20000 /\ TableAt(k)[a].FINAL = 20000
              /\ TableAt(k)[b].TOTAL_AMOUNT < -20000 /\ TableAt(k)[b].FINAL = -20000

\* C10: after the k-th quarter previous_sum is half the sum of FINAL of that
\* quarter's summary, the k-th progressive result is half the difference of the
\* sums of FINAL of quarters k and k-1 (0 for k-1 = 0), and the results of
\* quarters 1..k add up to half the sum of FINAL of quarter k.
C10_ProgressiveResults ==
    /\ Len(progressive_results) = qi
    /\ Len(quarter_data) = qi
    /\ 2 * previous_sum = (IF qi = 0 THEN 0 ELSE SumFinal(TableAt(qi)))
    /\ \A k \in 1..qi :
          /\ progressive_results[k].quarter = quarter_data[k].quarter
          /\ 2 * progressive_results[k].result =
                SumFinal(TableAt(k)) - (IF k = 1 THEN 0 ELSE SumFinal(TableAt(k - 1)))
          /\ 2 * SumSeq([j \in 1..k |-> progressive_results[j].result]) =
                SumFinal(TableAt(k))

\* Two quarters processed, with different non-zero sums of FINAL.
C10_Witness ==
    /\ qi = 2
    /\ SumFinal(TableAt(1)) # 0
    /\ SumFinal(TableAt(2)) # 0
    /\ SumFinal(TableAt(2)) # SumFinal(TableAt(1))
    /\ progressive_results[2].result # 0

\* The running cumulative Year-2 total of an insured through the k-th period.
RunningYear2Total(k, cod) ==
    SumSeq([j \in 1..k |-> IF Year2Period(j) THEN PeriodAmount(j, cod) ELSE 0])

\* The k-th period is the first Year-2 period with claims of the insured.
FirstYear2PeriodOf(k, cod) ==
    /\ Year2Period(k)
    /\ HasClaims(k, cod)
    /\ \A j \in 1..(k - 1) : ~(Year2Period(j) /\ HasClaims(j, cod))

\* The name header the summaries of this run are grouped by.
RunNameHeader == detect_columns(Columns(all_claims))["NOMBRE_ASEGURADO"]

\* The total amount of the claims of the k-th period that carry the code and
\* the name of a summary row.
RowAmount(k, key) ==
    SumSeq([i \in 1..Len(ClaimsAt(k)) |->
               IF /\ ClaimsAt(k)[i]["COD_ASEGURADO"] = key[1]
                  /\ RunNameHeader \in DOMAIN ClaimsAt(k)[i]
                  /\ ClaimsAt(k)[i][RunNameHeader] = key[2]
               THEN ClaimsAt(k)[i]["MONTO"] ELSE 0])

ScenarioA(k) ==
    /\ Len(files) = 1
    /\ Len(ClaimsAt(k)) = 2
    /\ ClaimsAt(k)[1]["COD_ASEGURADO"] = ClaimsAt(k)[2]["COD_ASEGURADO"]
    /\ \E i, j \in 1..2 :
          /\ ClaimsAt(k)[i]["MONTO"] = 15000 /\ IsCovidClaim(ClaimsAt(k)[i])
          /\ ClaimsAt(k)[j]["MONTO"] = 10000 /\ ~IsCovidClaim(ClaimsAt(k)[j])

MonthOf(r) == month_mapping[r["MONTH"]]

C4_SummaryFromLedger ==
    \A k \in 2..Len(quarter_data) :
        \A j \in 1..(k - 1) :
            \A key \in DOMAIN TableAt(j) :
                ~HasClaims(k, key[1]) =>
                    /\ key \in DOMAIN TableAt(k)
                    /\ key \in DOMAIN TableAt(k - 1)
                    /\ TableAt(k)[key].COVID_AMOUNT = TableAt(k - 1)[key].COVID_AMOUNT
                    /\ TableAt(k)[key].GENERAL_AMOUNT = TableAt(k - 1)[key].GENERAL_AMOUNT
                    /\ TableAt(k)[key].TOTAL_AMOUNT = TableAt(k - 1)[key].TOTAL_AMOUNT

\* A quarter label is chronologically before another.
Earlier(a, b) == a[2] < b[2] \/ (a[2] = b[2] /\ a[1] < b[1])

\* C6: whatever the upload order, the periods are processed in ascending
\* chronological order: no period comes before an earlier period of the run.
C6_ChronologicalOrder ==
    \A a, b \in 1..Len(grouped_files) :
        a < b => Earlier(grouped_files[a].quarter, grouped_files[b].quarter)

\* The date of a claim lies in the month and the year the file's name carries.
DatedAsNamed(r, file) ==
    /\ file.month # ""
    /\ file.year # 0
    /\ YearOfDate(r["FECHA_RECLAMO"]) = file.year
    /\ (r["FECHA_RECLAMO"] \div 100) % 100 = month_mapping[file.month]

\* The claim, as read from the file, is among the kept claims.
KeptFrom(r, file) ==
    \E i \in 1..Len(all_claims) :
        all_claims[i] = UpperRow(r) @@ ("MONTH" :> file.month) @@ ("YEAR" :> file.year)

\* The claim's period is processed under the Year-1 rule.
UnderYear1Rule(file) ==
    KeyYear(quarter_key(("MONTH" :> file.month) @@ ("YEAR" :> file.year)))
        = YearOfDate(year1_range[1])

\* C7: of a file with one valid sheet, every claim dated as the file is named
\* and within the Year-1 window is kept and falls in a period under the
\* Year-1 rule; every such claim within the Year-2 window is kept and falls
\* in a period under the Year-2 rule.
C7_PolicyYearFollowsWindow ==
    \A f \in 1..idx :
        LET file == files[f]
        IN  (Len(file.sheets) = 1 /\ {"FECHA_RECLAMO", "MONTO"} \subseteq file.sheets[1].cols) =>
                \A i \in 1..Len(file.sheets[1].rows) :
                    LET r == file.sheets[1].rows[i]
                    IN  DatedAsNamed(r, file) =>
                            /\ InRange(r["FECHA_RECLAMO"], year1_range) =>
                                  KeptFrom(r, file) /\ UnderYear1Rule(file)
                            /\ InRange(r["FECHA_RECLAMO"], year2_range) =>
                                  KeptFrom(r, file) /\ ~UnderYear1Rule(file)

\* The COVID amount and the general amount of an insured's claims in the
\* k-th period, each claim read under its own file's diagnosis header.
CovidClaimsAmount(k, cod) ==
    SumSeq([i \in 1..Len(ClaimsAt(k)) |->
               IF ClaimsAt(k)[i]["COD_ASEGURADO"] = cod /\ IsCovidClaim(ClaimsAt(k)[i])
               THEN ClaimsAt(k)[i]["MONTO"] ELSE 0])

GeneralClaimsAmount(k, cod) ==
    SumSeq([i \in 1..Len(ClaimsAt(k)) |->
               IF ClaimsAt(k)[i]["COD_ASEGURADO"] = cod /\ ~IsCovidClaim(ClaimsAt(k)[i])
               THEN ClaimsAt(k)[i]["MONTO"] ELSE 0])

\* C8: in a Year-1 summary every claim whose diagnosis contains "COVID",
\* under whichever accepted header of its file and whatever the headers of
\* the other files, counts in full in covid_amount and not in general_amount;
\* every other claim (all of them when no file has a diagnosis column) counts
\* in full in general_amount.
C8_CovidClassification ==
    \A k \in 1..Len(quarter_data) :
        Year1Period(k) =>
            \A key \in DOMAIN TableAt(k) :
                /\ TableAt(k)[key].COVID_AMOUNT = CovidClaimsAmount(k, key[1])
                /\ TableAt(k)[key].GENERAL_AMOUNT = GeneralClaimsAmount(k, key[1])

\* No sheet of the file has an amount column.
NoAmountColumn(file) ==
    \A s \in 1..Len(file.sheets) : "MONTO" \notin file.sheets[s].cols

\* The files the run has read and left out of its listing of accepted files.
SkippedFiles ==
    {f \in 1..idx : \A j \in 1..Len(detected_months) : detected_months[j].file # f}

\* C9: a file without an amount column is recorded as skipped, contributes no
\* claim, and the run goes on normally with the other files.
C9_NoAmountFileSkipped ==
    \A f \in 1..Len(files) :
        NoAmountColumn(files[f]) =>
            /\ f <= idx => f \in SkippedFiles
            /\ \A j \in 1..Len(detected_months) :
                  detected_months[j].file = f => detected_months[j].count = 0
            /\ ~(pc = "crashed" /\ f = idx + 1)

====
